---------------------------- MODULE Spec2Model ----------------------------
(***************************************************************************)
(* Model of hospitals_data_processor.py: the incremental refresh of the   *)
(* CMS "Hospitals" datasets.  One run of main() reads the cutoff from the  *)
(* run log, loads the metadata, selects the datasets modified after the    *)
(* cutoff, downloads them on a pool of worker threads and appends one line *)
(* to the run log.                                                         *)
(*                                                                         *)
(* Time is a line of integers.  A datetime is a wall-clock reading with an *)
(* optional UTC offset; its instant is wall - off.  datetime.min is wall 0.*)
(* Text that the program parses is kept in the form the parser sees:      *)
(* an ISO string is either well formed (and then carries its reading) or   *)
(* not, a run-log line is a sequence of tokens, a column name is a         *)
(* sequence of characters, a URL is a sequence of path segments.           *)
(***************************************************************************)
EXTENDS Integers, Sequences, FiniteSets, TLC

(***************************************************************************)
(* Bounds of the model.                                                    *)
(***************************************************************************)
MaxEntries == 2      \* longest metadata list
MaxRuns == 2         \* runs of main() in one behaviour
MaxClock == 3        \* latest reading of the system clock
MaxLines == 2        \* longest run log found by the first run
MaxChanges == 1      \* edits of the metadata by its publisher

(***************************************************************************)
(* Program constants.                                                      *)
(***************************************************************************)
THEME == "Hospitals"
MAX_WORKERS == 5
DELIM == " | "

(***************************************************************************)
(* Datetimes and ISO-8601 strings.                                         *)
(***************************************************************************)
Datetime(w, a, o) == [wall |-> w, aware |-> a, off |-> o]

\* datetime.min.replace(tzinfo=UTC)
DATETIME_MIN_UTC == Datetime(0, TRUE, 0)

\* an ISO-8601 string carrying an offset, one without an offset, and a string
\* that datetime.fromisoformat rejects
IsoAware(w, o) == [iso |-> TRUE, wall |-> w, aware |-> TRUE, off |-> o]
IsoNaive(w) == [iso |-> TRUE, wall |-> w, aware |-> FALSE, off |-> 0]
NotIso == [iso |-> FALSE, wall |-> 0, aware |-> FALSE, off |-> 0]

\* datetime.fromisoformat(s) raises ValueError exactly when ~IsIsoFormat(s)
IsIsoFormat(s) == s.iso
fromisoformat(s) == Datetime(s.wall, s.aware, s.off)

\* dt.isoformat()
isoformat(dt) == [iso |-> TRUE, wall |-> dt.wall, aware |-> dt.aware, off |-> dt.off]

\* dt.replace(tzinfo=UTC): the wall-clock reading is kept, the offset is
\* overwritten
replace_tzinfo_UTC(dt) == Datetime(dt.wall, TRUE, 0)

\* a > b on datetimes raises TypeError when exactly one of them is naive
Comparable(a, b) == a.aware = b.aware
Instant(dt) == dt.wall - dt.off
DatetimeGT(a, b) == Instant(a) > Instant(b)


(***************************************************************************)
(* The run log.  A line is a sequence of tokens: a word (which may be an   *)
(* ISO string), the delimiter " | ", or white space.                       *)
(***************************************************************************)
Word(i, s, n) == [k |-> "word", iso |-> i, s |-> s, n |-> n]
IsoTok(i) == Word(i, "", 0)
Text(s, n) == Word(NotIso, s, n)
SepTok == [k |-> "sep", iso |-> NotIso, s |-> DELIM, n |-> 0]
WsTok == [k |-> "ws", iso |-> NotIso, s |-> " ", n |-> 0]

RECURSIVE lstrip(_)
lstrip(line) ==
  IF line # <<>> /\ Head(line).k = "ws" THEN lstrip(Tail(line)) ELSE line

RECURSIVE rstrip(_)
rstrip(line) ==
  IF line # <<>> /\ line[Len(line)].k = "ws"
  THEN rstrip(SubSeq(line, 1, Len(line) - 1))
  ELSE line

\* line.strip()
strip(line) == rstrip(lstrip(line))

\* line.split(" | ")[0]: the tokens before the first delimiter
RECURSIVE split_first(_)
split_first(line) ==
  IF line = <<>> \/ Head(line).k = "sep"
  THEN <<>>
  ELSE <<Head(line)>> \o split_first(Tail(line))

\* the field is the text of one ISO string and nothing else
FieldIsIso(field) ==
  /\ Len(field) = 1
  /\ field[1].k = "word"
  /\ IsIsoFormat(field[1].iso)

\* [line.strip() for line in f if line.strip()]
RECURSIVE nonblank_lines(_)
nonblank_lines(log) ==
  IF log = <<>> THEN <<>>
  ELSE IF strip(Head(log)) # <<>>
       THEN <<strip(Head(log))>> \o nonblank_lines(Tail(log))
       ELSE nonblank_lines(Tail(log))

\* get_last_run_time() as it would be if it fell back to the last line that
\* carries a timestamp
RECURSIVE get_last_run_time_scanning(_, _)
get_last_run_time_scanning(exists, log) ==
  IF ~exists THEN DATETIME_MIN_UTC
  ELSE LET lines == nonblank_lines(log) IN
       IF lines = <<>> THEN DATETIME_MIN_UTC
       ELSE LET timestamp_str == split_first(lines[Len(lines)]) IN
            IF FieldIsIso(timestamp_str)
            THEN fromisoformat(timestamp_str[1].iso)
            ELSE get_last_run_time_scanning(exists, SubSeq(lines, 1, Len(lines) - 1))

\* get_last_run_time(), of the run log file (exists, log)
get_last_run_time(exists, log) ==
  IF ~exists THEN DATETIME_MIN_UTC
  ELSE LET lines == nonblank_lines(log) IN
       IF lines = <<>> THEN DATETIME_MIN_UTC
       ELSE LET timestamp_str == split_first(lines[Len(lines)]) IN
            IF FieldIsIso(timestamp_str)
            THEN fromisoformat(timestamp_str[1].iso)
            ELSE DATETIME_MIN_UTC

\* the messages main() passes to update_run_log
NothingToUpdate == Text("Nothing to update", 0)
DownloadedMsg(k) == Text("Downloaded file(s)", k)

\* "python " + " ".join(sys.argv)
Command(force) ==
  Text(IF force THEN "python hospitals_data_processor.py --force-refresh"
       ELSE "python hospitals_data_processor.py", 0)

\* the line update_run_log(message) writes when the clock reads now
log_entry(now, message, force) ==
  << IsoTok(isoformat(Datetime(now, TRUE, 0))), SepTok, message, SepTok,
     Command(force) >>

(***************************************************************************)
(* Column names: inflection.underscore(col.strip()) on sequences of        *)
(* characters.                                                             *)
(***************************************************************************)
Upper == {"A", "B", "C", "D", "I", "N", "P", "Z"}
Lower == {"a", "b", "c", "d", "e", "i", "n", "o", "p", "z"}
Digit == {"1", "2"}

ToLower(c) ==
  CASE c = "A" -> "a" [] c = "B" -> "b" [] c = "C" -> "c" [] c = "D" -> "d"
    [] c = "I" -> "i" [] c = "N" -> "n" [] c = "P" -> "p" [] c = "Z" -> "z"
    [] OTHER -> c

\* col.strip() on characters
RECURSIVE lstrip_chars(_)
lstrip_chars(w) ==
  IF w # <<>> /\ Head(w) = " " THEN lstrip_chars(Tail(w)) ELSE w

RECURSIVE rstrip_chars(_)
rstrip_chars(w) ==
  IF w # <<>> /\ w[Len(w)] = " "
  THEN rstrip_chars(SubSeq(w, 1, Len(w) - 1))
  ELSE w

strip_chars(w) == rstrip_chars(lstrip_chars(w))

\* re.sub(r"([A-Z]+)([A-Z][a-z])", r"\1_\2") then
\* re.sub(r"([a-z\d])([A-Z])", r"\1_\2"): an underscore goes before w[i]
BreakBefore(w, i) ==
  /\ i > 1
  /\ w[i] \in Upper
  /\ \/ w[i-1] \in Upper /\ i < Len(w) /\ w[i+1] \in Lower
     \/ w[i-1] \in Lower \cup Digit

RECURSIVE underscore_from(_, _)
underscore_from(w, i) ==
  IF i > Len(w) THEN <<>>
  ELSE LET c == IF w[i] = "-" THEN "_" ELSE ToLower(w[i]) IN
       (IF BreakBefore(w, i) THEN <<"_", c>> ELSE <<c>>)
         \o underscore_from(w, i + 1)

\* inflection.underscore(word)
underscore(w) == underscore_from(w, 1)

\* [inflection.underscore(col.strip()) for col in rows[0]]
normalize_headers(row) == [j \in 1..Len(row) |-> underscore(strip_chars(row[j]))]

(***************************************************************************)
(* The metadata and the download server.                                   *)
(***************************************************************************)
\* one dataset of the metadata list
Entry(theme, modified, url) ==
  [theme |-> theme, modified |-> modified,
   distribution |-> << [downloadURL |-> url] >>]

\* a dataset whose distribution list is empty
EntryNoDistribution(theme, modified) ==
  [theme |-> theme, modified |-> modified, distribution |-> <<>>]

URL_A == <<"data.cms.gov", "files", "a.csv">>
URL_B == <<"data.cms.gov", "files", "b.csv">>
URL_E == <<"data.cms.gov", "files", "e.csv">>
URL_Z == <<"cdn.cms.gov", "files", "b.csv">>
URL_T == <<"data.cms.gov", "files", "t.csv">>
URL_A2 == <<"cdn.cms.gov", "files", "a.csv">>
URL_N == <<"data.cms.gov", "files", "n.csv">>
URL_D == <<"data.cms.gov", "files", "">>
URLs == {URL_A, URL_B, URL_E, URL_Z, URL_T, URL_A2, URL_N, URL_D}

\* url.split("/")[-1]
filename_of(url) == url[Len(url)]

\* the names a file of the download directory can have
FileNames == {filename_of(u) : u \in URLs} \ {""}

\* what requests.get(url) does: the exception it raises ("" when it answers),
\* the status of the answer, whether its body is valid UTF-8, and the rows
\* of its CSV body
BODY_A == << << <<"Z","I","P","C","o","d","e">>, <<" ","I","d","-","N","o">> >>,
             << <<"1">>, <<"A","b">> >> >>
BODY_B == << << <<"p","I","d","2","B">> >>, << <<"b">> >> >>
BODY_A2 == << << <<"N","o">> >> >>

Answer(status, utf8, rows) ==
  [raised |-> "", status |-> status, utf8 |-> utf8, rows |-> rows]

Server(url) ==
  CASE url = URL_A -> Answer(200, TRUE, BODY_A)
    [] url = URL_B -> Answer(200, TRUE, BODY_B)
    [] url = URL_A2 -> Answer(200, TRUE, BODY_A2)
    [] url = URL_D -> Answer(200, TRUE, BODY_B)
    [] url = URL_Z -> Answer(200, TRUE, <<>>)
    [] url = URL_N -> Answer(200, FALSE, <<>>)
    [] url = URL_T -> [raised |-> "ConnectionError", status |-> 0,
                       utf8 |-> TRUE, rows |-> <<>>]
    [] OTHER -> Answer(500, TRUE, <<>>)

\* response.raise_for_status() raises for 4xx and 5xx
raises_for_status(response) == response.status >= 400

\* the modified strings of the datasets
Modifieds ==
  {NotIso, IsoAware(0, 0), IsoAware(1, 0), IsoAware(3, 0), IsoAware(3, 1)}

JUN == Entry({THEME}, IsoAware(3, 0), URL_T)

\* the datasets of the initial states: one family varies the theme and the
\* modified string, the other the download URL
DatedEntries ==
  {Entry({THEME}, m, URL_T) : m \in Modifieds}
    \cup {Entry({"Physicians"}, NotIso, URL_T)}
LinkedEntries ==
  {Entry({THEME}, IsoAware(3, 0), u) : u \in {URL_A, URL_B, URL_E, URL_Z}}

\* datasets whose call raises, and datasets whose file name is shared
FaultyEntries ==
  {Entry({THEME}, IsoAware(3, 0), u) : u \in {URL_A, URL_N, URL_D}}
    \cup {EntryNoDistribution({THEME}, IsoAware(3, 0))}
SameNameEntries ==
  {Entry({THEME}, IsoAware(3, 0), u) : u \in {URL_A, URL_A2}}

SeqsUpTo(S, n) == UNION {[1..k -> S] : k \in 0..n}

\* the lines a run log may hold before the first run
LINE_BLANK == << WsTok >>
LINE_NAIVE == << IsoTok(IsoNaive(1)), SepTok, NothingToUpdate >>
LINE_JUNK == << Text("junk", 0), SepTok, NothingToUpdate >>
LINE_NO_DELIM == << IsoTok(IsoAware(2, 0)), Text("junk", 0) >>
LINE_TS(t) == << IsoTok(IsoAware(t, 0)), SepTok, NothingToUpdate >>
InitLines ==
  {LINE_BLANK, LINE_NAIVE, LINE_JUNK, LINE_NO_DELIM, LINE_TS(1), LINE_TS(2)}

\* a JSON document: a list, or an object with the key "dataset"
JList(items) == [kind |-> "list", items |-> items]
JDict(items) == [kind |-> "dict", items |-> items]

\* which of the two sources load_hospital_data() read: the API when it
\* answered a list or an object with "dataset", else the fallback file when
\* it can be read, else neither
fetch_source(api, fb) ==
  IF api \in {"list", "dict"} THEN "api"
  ELSE IF fb \in {"list", "dict"} THEN "fallback"
  ELSE "none"

\* load_hospital_data() as it would be if a failure of both sources left the
\* run with the metadata of an earlier fetch
load_hospital_data_stale(api, fb, cat) ==
  IF api \in {"list", "dict"} THEN JList(cat)
  ELSE IF fb = "list" THEN JList(cat)
  ELSE IF fb = "dict" THEN JDict(cat)
  ELSE JList(cat)

\* load_hospital_data(): api is what the API answered ("list", "dict" or
\* "error"), fb is the fallback file ("list", "dict" or "missing"), both
\* holding the metadata list cat
load_hospital_data(api, fb, cat) ==
  IF api \in {"list", "dict"} THEN JList(cat)
  ELSE IF fb = "list" THEN JList(cat)
  ELSE IF fb = "dict" THEN JDict(cat)
  ELSE JList(<<>>)

(***************************************************************************)
(* The selection of main(), lines 150-154.                                 *)
(***************************************************************************)
\* "Hospitals" in dataset.get("theme", [])
has_theme(dataset) == THEME \in dataset.theme

\* datetime.fromisoformat(dataset["modified"]).replace(tzinfo=UTC)
modified_utc(dataset) == replace_tzinfo_UTC(fromisoformat(dataset.modified))

\* the exception the comprehension raises on dataset, "" when none
selection_error(dataset, last) ==
  IF ~has_theme(dataset) THEN ""
  ELSE IF ~IsIsoFormat(dataset.modified) THEN "ValueError"
  ELSE IF ~Comparable(modified_utc(dataset), last) THEN "TypeError"
  ELSE ""

is_selected(dataset, last) ==
  has_theme(dataset) /\ DatetimeGT(modified_utc(dataset), last)

\* the exception of the whole comprehension over the document d
comprehension_error(d, last) ==
  IF d.kind = "dict" THEN "AttributeError"
  ELSE IF \E i \in 1..Len(d.items) : selection_error(d.items[i], last) # ""
  THEN LET i == CHOOSE j \in 1..Len(d.items) :
                  /\ selection_error(d.items[j], last) # ""
                  /\ \A h \in 1..(j-1) : selection_error(d.items[h], last) = ""
       IN selection_error(d.items[i], last)
  ELSE ""

select_datasets(d, last) ==
  LET keep(dataset) == is_selected(dataset, last) IN SelectSeq(d.items, keep)

(***************************************************************************)
(* The state.                                                              *)
(***************************************************************************)
VARIABLES
  catalog,            \* the metadata list the API and the fallback file hold
  run_log_exists,     \* os.path.exists(RUN_LOG)
  run_log,            \* the lines of RUN_LOG
  clock,              \* the last reading of datetime.now(UTC)
  dir_exists,         \* HOSPITAL_DOWNLOAD_DIR exists
  files,              \* the files of HOSPITAL_DOWNLOAD_DIR, by name
  pc,                 \* where main() is
  force_refresh,      \* args.force_refresh of the current run
  last_run,           \* main(): last_run
  data,               \* main(): data
  hospital_datasets,  \* main(): hospital_datasets
  workers,            \* the state of each call submitted to the executor
  error,              \* the exception that ended the current run, "" if none
  runs,               \* the number of runs started
  len_at_start,       \* history: Len(run_log) when the current run started
  run_log0,           \* history: the run log before the first run
  completed,          \* history: the last run that reached its log append
  source,             \* history: where load_hospital_data() got data from
  changes_left,       \* how many more times the publisher edits the metadata
  changed_midrun,     \* history: the datasets edited since data was loaded
  lost                \* history: the datasets edited between the load and the
                      \* log append of one run, to a modified time that is no
                      \* earlier than the clock read before the load and no
                      \* later than the append, and not edited since

vars == << catalog, run_log_exists, run_log, clock, dir_exists, files, pc,
           force_refresh, last_run, data, hospital_datasets, workers, error,
           runs, len_at_start, run_log0, completed, source, changes_left,
           changed_midrun, lost >>

NoFile == [exists |-> FALSE, text |-> <<>>]
NoRun == [valid |-> FALSE, force |-> FALSE, data |-> JList(<<>>),
          selected |-> <<>>, time |-> 0]

\* the first reading of the clock
StartClock == 2

\* the run logs and metadata lists of the initial states: every metadata
\* list with no run log, and every run log with a short metadata list
SmallCatalogs == {<<>>, << JUN >>}

\* the metadata lists the publisher goes on editing, and the modified
\* strings it writes
LiveCatalogs == {<< JUN >>}
ChangedModifieds == {IsoAware(StartClock, 0), IsoAware(MaxClock, 1)}

Init ==
  /\ \/ /\ catalog \in SeqsUpTo(DatedEntries, MaxEntries)
                        \cup SeqsUpTo(LinkedEntries, MaxEntries)
                        \cup SeqsUpTo(FaultyEntries, MaxEntries)
                        \cup SeqsUpTo(SameNameEntries, MaxEntries)
        /\ run_log = <<>>
        /\ run_log_exists = FALSE
        /\ changes_left = 0
     \/ /\ catalog \in SmallCatalogs
        /\ run_log \in SeqsUpTo(InitLines, MaxLines)
        /\ run_log_exists = TRUE
        /\ changes_left = 0
     \/ /\ catalog \in LiveCatalogs
        /\ run_log = <<>>
        /\ run_log_exists = FALSE
        /\ changes_left = MaxChanges
  /\ run_log0 = run_log
  /\ clock = StartClock
  /\ dir_exists = FALSE
  /\ files = [f \in FileNames |-> NoFile]
  /\ pc = "idle"
  /\ force_refresh = FALSE
  /\ last_run = DATETIME_MIN_UTC
  /\ data = JList(<<>>)
  /\ hospital_datasets = <<>>
  /\ workers = <<>>
  /\ error = ""
  /\ runs = 0
  /\ len_at_start = Len(run_log)
  /\ completed = NoRun
  /\ source = ""
  /\ changed_midrun = {}
  /\ lost = {}

(***************************************************************************)
(* The publisher edits the modified string of a dataset.                   *)
(***************************************************************************)
CatalogChange(i, m) ==
  /\ changes_left > 0
  /\ i \in 1..Len(catalog)
  /\ m # catalog[i].modified
  /\ catalog' = [catalog EXCEPT ![i].modified = m]
  /\ changes_left' = changes_left - 1
  /\ changed_midrun' = IF pc \in {"select", "selected", "pool"}
                       THEN changed_midrun \cup {i}
                       ELSE changed_midrun
  /\ lost' = lost \ {i}
  /\ UNCHANGED << run_log_exists, run_log, clock, dir_exists, files, pc,
                  force_refresh, last_run, data, hospital_datasets, workers,
                  error, runs, len_at_start, run_log0, completed, source >>

(***************************************************************************)
(* update_run_log(message), lines 119-130.                                 *)
(***************************************************************************)
update_run_log(message) ==
  \E now \in clock..MaxClock :
    /\ clock' = now
    /\ run_log' = Append(run_log, log_entry(now, message, force_refresh))
    /\ run_log_exists' = TRUE
    /\ completed' = [valid |-> TRUE, force |-> force_refresh, data |-> data,
                     selected |-> hospital_datasets, time |-> now]
    /\ lost' = lost \cup
                 {i \in changed_midrun :
                    /\ clock <= Instant(fromisoformat(catalog[i].modified))
                    /\ Instant(fromisoformat(catalog[i].modified)) <= now}

(***************************************************************************)
(* main(), lines 132-166.                                                  *)
(***************************************************************************)
\* lines 140-146: parse the arguments and fix the cutoff
StartRun(force) ==
  /\ pc \in {"idle", "done", "crashed"}
  /\ runs < MaxRuns
  /\ runs' = runs + 1
  /\ force_refresh' = force
  /\ last_run' = IF force THEN DATETIME_MIN_UTC
                 ELSE get_last_run_time(run_log_exists, run_log)
  /\ data' = JList(<<>>)
  /\ hospital_datasets' = <<>>
  /\ workers' = <<>>
  /\ error' = ""
  /\ len_at_start' = Len(run_log)
  /\ source' = ""
  /\ changed_midrun' = {}
  /\ pc' = "load"
  /\ UNCHANGED << catalog, run_log_exists, run_log, clock, dir_exists, files,
                  run_log0, completed,
                  changes_left, lost >>

\* line 148
LoadData(api, fb) ==
  /\ pc = "load"
  /\ data' = load_hospital_data(api, fb, catalog)
  /\ source' = fetch_source(api, fb)
  /\ changed_midrun' = {}
  /\ pc' = "select"
  /\ UNCHANGED << catalog, run_log_exists, run_log, clock, dir_exists, files,
                  force_refresh, last_run, hospital_datasets, workers, error,
                  runs, len_at_start, run_log0, completed,
                  changes_left, lost >>

\* lines 150-154
SelectDatasets ==
  /\ pc = "select"
  /\ comprehension_error(data, last_run) = ""
  /\ hospital_datasets' = select_datasets(data, last_run)
  /\ pc' = "selected"
  /\ UNCHANGED << catalog, run_log_exists, run_log, clock, dir_exists, files,
                  force_refresh, last_run, data, workers, error, runs,
                  len_at_start, run_log0, completed,
                  source, changes_left, changed_midrun, lost >>

\* lines 150-154 raise: the exception leaves main() and ends the process
SelectRaises ==
  /\ pc = "select"
  /\ comprehension_error(data, last_run) # ""
  /\ error' = comprehension_error(data, last_run)
  /\ pc' = "crashed"
  /\ UNCHANGED << catalog, run_log_exists, run_log, clock, dir_exists, files,
                  force_refresh, last_run, data, hospital_datasets, workers,
                  runs, len_at_start, run_log0, completed,
                  source, changes_left, changed_midrun, lost >>

\* lines 156-159 as they would be if a run that selects nothing returned
\* without logging
NothingToDo_NoLog ==
  /\ pc = "selected"
  /\ hospital_datasets = <<>>
  /\ pc' = "done"
  /\ UNCHANGED << catalog, run_log_exists, run_log, clock, dir_exists, files,
                  force_refresh, last_run, data, hospital_datasets, workers,
                  error, runs, len_at_start, run_log0, completed, source,
                  changes_left, changed_midrun, lost >>

\* lines 156-159
NothingToDo ==
  /\ pc = "selected"
  /\ hospital_datasets = <<>>
  /\ update_run_log(NothingToUpdate)
  /\ pc' = "done"
  /\ UNCHANGED << catalog, dir_exists, files, force_refresh, last_run, data,
                  hospital_datasets, workers, error, runs, len_at_start,
                  run_log0,
                  source, changes_left, changed_midrun >>

\* lines 162-163: executor.map submits one call per selected dataset
Dispatch ==
  /\ pc = "selected"
  /\ hospital_datasets # <<>>
  /\ workers' = [i \in 1..Len(hospital_datasets) |-> "queued"]
  /\ pc' = "pool"
  /\ UNCHANGED << catalog, run_log_exists, run_log, clock, dir_exists, files,
                  force_refresh, last_run, data, hospital_datasets, error,
                  runs, len_at_start, run_log0, completed,
                  source, changes_left, changed_midrun, lost >>

\* the calls a pool thread is executing, and the calls that have ended
Busy(w) == {i \in 1..Len(w) : w[i] \in {"running", "parsed", "opened"}}
Finished(w) == {i \in 1..Len(w) : w[i] \in {"failed", "empty", "saved", "raised"}}

\* the executor as it would be if it started a thread for every call
has_idle_thread_unbounded(w) == TRUE

\* ThreadPoolExecutor(max_workers=5): a queued call starts only while fewer
\* than max_workers calls are being executed
has_idle_thread(w) == Cardinality(Busy(w)) < MAX_WORKERS

\* a pool thread takes the next queued call: lines 62-69
WorkerStart(i) ==
  /\ pc = "pool"
  /\ i \in 1..Len(workers)
  /\ workers[i] = "queued"
  /\ \A j \in 1..(i-1) : workers[j] # "queued"
  /\ has_idle_thread(workers)
  /\ workers' = [workers EXCEPT ![i] =
                   IF hospital_datasets[i].distribution = <<>>
                   THEN "raised" ELSE "running"]
  /\ UNCHANGED << catalog, run_log_exists, run_log, clock, dir_exists, files,
                  pc, force_refresh, last_run, data, hospital_datasets, error,
                  runs, len_at_start, run_log0, completed,
                  source, changes_left, changed_midrun, lost >>

url_of(dataset) == dataset.distribution[1].downloadURL

\* the outcome of lines 62-84 for a dataset: "raised" when an exception
\* leaves the call (no distribution, a body that does not decode), "failed"
\* and "empty" when it returns early, "parsed" when it has rows to write
download_outcome(dataset) ==
  IF dataset.distribution = <<>> THEN "raised"
  ELSE LET response == Server(url_of(dataset)) IN
       IF response.raised # "" THEN "failed"
       ELSE IF raises_for_status(response) THEN "failed"
       ELSE IF ~response.utf8 THEN "raised"
       ELSE IF response.rows = <<>> THEN "empty"
       ELSE "parsed"

\* lines 71-84 as they would be if the directory were made before the
\* request
WorkerDownload_MakesDir(i) ==
  /\ pc = "pool"
  /\ i \in 1..Len(workers)
  /\ workers[i] = "running"
  /\ workers' = [workers EXCEPT ![i] = download_outcome(hospital_datasets[i])]
  /\ dir_exists' = TRUE
  /\ UNCHANGED << catalog, run_log_exists, run_log, clock, files,
                  pc, force_refresh, last_run, data, hospital_datasets, error,
                  runs, len_at_start, run_log0, completed,
                  source, changes_left, changed_midrun, lost >>

\* lines 71-84
WorkerDownload(i) ==
  /\ pc = "pool"
  /\ i \in 1..Len(workers)
  /\ workers[i] = "running"
  /\ workers' = [workers EXCEPT ![i] = download_outcome(hospital_datasets[i])]
  /\ UNCHANGED << catalog, run_log_exists, run_log, clock, dir_exists, files,
                  pc, force_refresh, last_run, data, hospital_datasets, error,
                  runs, len_at_start, run_log0, completed,
                  source, changes_left, changed_midrun, lost >>

\* lines 86-87 as they would be if every row went through the header
\* normalization
processed_rows_all(rows) == [r \in 1..Len(rows) |-> normalize_headers(rows[r])]

\* lines 86-87: the rows written for the rows of a body
processed_rows(rows) == << normalize_headers(rows[1]) >> \o Tail(rows)

\* open(save_path, "w") raises when the path is the directory itself
opens(dataset) == filename_of(url_of(dataset)) # ""

\* lines 89-91: the directory is made and the file is opened for writing,
\* which empties it
WorkerOpen(i) ==
  /\ pc = "pool"
  /\ i \in 1..Len(workers)
  /\ workers[i] = "parsed"
  /\ dir_exists' = TRUE
  /\ IF opens(hospital_datasets[i])
     THEN /\ files' = [files EXCEPT ![filename_of(url_of(hospital_datasets[i]))] =
                         [exists |-> TRUE, text |-> <<>>]]
          /\ workers' = [workers EXCEPT ![i] = "opened"]
     ELSE /\ files' = files
          /\ workers' = [workers EXCEPT ![i] = "raised"]
  /\ UNCHANGED << catalog, run_log_exists, run_log, clock, pc, force_refresh,
                  last_run, data, hospital_datasets, error, runs, len_at_start,
                  run_log0, completed,
                  source, changes_left, changed_midrun, lost >>

\* csv.writer(f).writerows(rows) with newline="": the cells of a row joined
\* by commas, every row ended by "\r\n" (no cell of the model needs quotes)
RECURSIVE csv_cells(_)
csv_cells(row) ==
  IF row = <<>> THEN <<>>
  ELSE IF Len(row) = 1 THEN row[1]
  ELSE row[1] \o << "," >> \o csv_cells(Tail(row))

RECURSIVE csv_text(_)
csv_text(rows) ==
  IF rows = <<>> THEN <<>>
  ELSE csv_cells(Head(rows)) \o << "\r", "\n" >> \o csv_text(Tail(rows))

\* the text a call writes for a dataset is fixed by the body its URL
\* answers with: one text for each URL
body_text ==
  [u \in URLs |->
     IF Server(u).rows = <<>> THEN <<>>
     ELSE csv_text(processed_rows(Server(u).rows))]
written_text(dataset) == body_text[url_of(dataset)]

\* a write of text at the start of a file that holds old: what lay beyond
\* the written characters stays
write_at_start(old, text) == text \o SubSeq(old, Len(text) + 1, Len(old))

\* lines 92-95: the rows are written from the start of the file when it is
\* closed
WorkerWrite(i) ==
  /\ pc = "pool"
  /\ i \in 1..Len(workers)
  /\ workers[i] = "opened"
  /\ files' = [files EXCEPT ![filename_of(url_of(hospital_datasets[i]))] =
                 [exists |-> TRUE,
                  text |-> write_at_start(@.text,
                                          written_text(hospital_datasets[i]))]]
  /\ workers' = [workers EXCEPT ![i] = "saved"]
  /\ UNCHANGED << catalog, run_log_exists, run_log, clock, dir_exists, pc,
                  force_refresh, last_run, data, hospital_datasets, error, runs,
                  len_at_start, run_log0, completed,
                  source, changes_left, changed_midrun, lost >>

\* the executor as it would be if it were shut down without waiting
Joined_NoWait(w) == TRUE

\* the executor as it would be if a failed call ended the batch
Joined_FailFast(w) ==
  \/ Finished(w) = 1..Len(w)
  \/ \E i \in 1..Len(w) : w[i] = "failed"

\* the executor has shut down: every submitted call has finished
Joined(w) == Finished(w) = 1..Len(w)

\* the count as it would be if only the downloads with rows were counted
logged_count_saved(datasets) ==
  Cardinality({i \in 1..Len(datasets) : download_outcome(datasets[i]) = "parsed"})

\* line 164: len(hospital_datasets)
logged_count(datasets) == Len(datasets)

\* lines 162-164 as they would be if the results of executor.map were read:
\* the exception of a call is raised again in main()
FinishRun_ResultsRead ==
  /\ pc = "pool"
  /\ Joined(workers)
  /\ IF \E i \in 1..Len(workers) : workers[i] = "raised"
     THEN /\ pc' = "crashed"
          /\ error' = "Exception"
          /\ UNCHANGED << run_log_exists, run_log, clock, completed, lost >>
     ELSE /\ update_run_log(DownloadedMsg(logged_count(hospital_datasets)))
          /\ pc' = "done"
          /\ error' = error
  /\ UNCHANGED << catalog, dir_exists, files, force_refresh, last_run, data,
                  hospital_datasets, workers, runs, len_at_start,
                  run_log0, source, changes_left, changed_midrun >>

\* lines 162-164: the with block ends when every call has finished, then the
\* run is logged
FinishRun ==
  /\ pc = "pool"
  /\ Joined(workers)
  /\ update_run_log(DownloadedMsg(logged_count(hospital_datasets)))
  /\ pc' = "done"
  /\ UNCHANGED << catalog, dir_exists, files, force_refresh, last_run, data,
                  hospital_datasets, workers, error, runs, len_at_start,
                  run_log0,
                  source, changes_left, changed_midrun >>

Next ==
  \/ \E force \in BOOLEAN : StartRun(force)
  \/ \E api \in {"list", "dict", "error"}, fb \in {"list", "dict", "missing"} :
       LoadData(api, fb)
  \/ SelectDatasets
  \/ SelectRaises
  \/ NothingToDo
  \/ Dispatch
  \/ \E i \in 1..Len(workers) : WorkerStart(i)
  \/ \E i \in 1..Len(workers) : WorkerDownload(i)
  \/ \E i \in 1..Len(workers) : WorkerOpen(i)
  \/ \E i \in 1..Len(workers) : WorkerWrite(i)
  \/ FinishRun
  \/ \E i \in 1..Len(catalog), m \in ChangedModifieds : CatalogChange(i, m)

Spec == Init /\ [][Next]_vars

(***************************************************************************)
(* Runs over a metadata list with more datasets than the executor has      *)
(* threads, with the pool threads and the orchestrator never stopping.     *)
(***************************************************************************)
BigCatalog ==
  [i \in 1..(MAX_WORKERS + 1) |->
     Entry({THEME}, IsoAware(3, 0), IF i = 1 THEN URL_A ELSE URL_E)]

PoolInit ==
  /\ catalog \in {BigCatalog} \cup LiveCatalogs
  /\ changes_left = IF catalog = BigCatalog THEN 0 ELSE MaxChanges
  /\ run_log = <<>>
  /\ run_log_exists = FALSE
  /\ run_log0 = run_log
  /\ clock = StartClock
  /\ dir_exists = FALSE
  /\ files = [f \in FileNames |-> NoFile]
  /\ pc = "idle"
  /\ force_refresh = FALSE
  /\ last_run = DATETIME_MIN_UTC
  /\ data = JList(<<>>)
  /\ hospital_datasets = <<>>
  /\ workers = <<>>
  /\ error = ""
  /\ runs = 0
  /\ len_at_start = Len(run_log)
  /\ completed = NoRun
  /\ source = ""
  /\ changed_midrun = {}
  /\ lost = {}

\* a step of some call on a pool thread, or the end of the with block
PoolStep ==
  \/ \E i \in 1..Len(workers) :
       WorkerStart(i) \/ WorkerDownload(i) \/ WorkerOpen(i) \/ WorkerWrite(i)
  \/ FinishRun

\* every request returns or fails, and the threads and main() go on
PoolSpec == PoolInit /\ [][Next]_vars /\ WF_vars(PoolStep)

(***************************************************************************)
(* Properties.                                                             *)
(***************************************************************************)
\* main() is past the selection of the current run
PastSelection == pc \in {"selected", "pool", "done"}

\* the run in progress follows a completed run and has not logged yet
AfterCompletedRun == pc \in {"selected", "pool"} /\ completed.valid

\* C1: a run without --force-refresh that follows a completed run without
\* --force-refresh over the same metadata selects no dataset.
C1_SecondRunSelectsNothing ==
  ( /\ AfterCompletedRun
    /\ ~force_refresh
    /\ ~completed.force
    /\ completed.data = data )
  => hospital_datasets = <<>>

\* the conversion of an aware datetime to UTC: the instant is kept
astimezone_UTC(dt) == Datetime(dt.wall - dt.off, TRUE, 0)

\* the instant of the modified string of a dataset, converted to UTC
ModifiedInstantUTC(dataset) == Instant(astimezone_UTC(fromisoformat(dataset.modified)))

InThemeAfter(dataset, cutoff) ==
  /\ THEME \in dataset.theme
  /\ IsIsoFormat(dataset.modified)
  /\ ModifiedInstantUTC(dataset) > Instant(cutoff)

\* C2: the selection is exactly the datasets that carry the theme and whose
\* modified time, converted to UTC, is strictly after the cutoff.
C2_SelectorExact ==
  PastSelection =>
    hospital_datasets =
      SelectSeq(data.items, LAMBDA dataset : InThemeAfter(dataset, last_run))

\* C3: a run with --force-refresh selects every dataset that carries the
\* theme, whatever its modified time.
C3_ForceSelectsAll ==
  (PastSelection /\ force_refresh) =>
    hospital_datasets =
      SelectSeq(data.items, LAMBDA dataset : THEME \in dataset.theme)

\* the call for the dataset neither returns early nor raises
Saves(dataset) == download_outcome(dataset) = "parsed" /\ opens(dataset)

\* another selected dataset is written to the file of the i-th
NameShared(i) ==
  \E j \in 1..Len(hospital_datasets) :
    /\ hospital_datasets[j] # hospital_datasets[i]
    /\ Saves(hospital_datasets[j])
    /\ filename_of(url_of(hospital_datasets[j]))
         = filename_of(url_of(hospital_datasets[i]))

\* the file of the i-th selected dataset is there, with the processed rows
\* of that dataset when no other selected dataset is written to it
FileWritten(i) ==
  LET name == filename_of(url_of(hospital_datasets[i])) IN
  /\ dir_exists
  /\ files[name].exists
  /\ NameShared(i)
     \/ files[name].text = written_text(hospital_datasets[i])

SomeDownloadFailed == \E i \in 1..Len(workers) : workers[i] = "failed"

\* C4: a failed download ends neither the run nor the other calls: when the
\* run has logged, every selected dataset whose download answered 200 with
\* rows (and whose own call did not raise) has its file, and the run has
\* appended exactly one line.
C4_FailureIsolated ==
  SomeDownloadFailed =>
    /\ pc \in {"pool", "done"}
    /\ error = ""
    /\ pc = "done" =>
         /\ Len(run_log) = len_at_start + 1
         /\ \A i \in 1..Len(hospital_datasets) :
              Saves(hospital_datasets[i])
              => (workers[i] = "saved" /\ FileWritten(i))

C4_Witness ==
  /\ pc = "done"
  /\ Len(workers) >= 2
  /\ SomeDownloadFailed
  /\ \E i \in 1..Len(workers) : workers[i] = "saved" /\ FileWritten(i)

\* the time of the n-th line when the code wrote it
LineTime(line) == fromisoformat(line[1].iso)

\* C5: from an empty or missing run log, after N runs the log has N lines
\* and their timestamps never decrease.
C5_OneLinePerRun ==
  (run_log0 = <<>> /\ pc \in {"idle", "done", "crashed"}) =>
    /\ Len(run_log) = runs
    /\ \A n \in 1..(Len(run_log) - 1) :
         Instant(LineTime(run_log[n])) <= Instant(LineTime(run_log[n+1]))

\* C6: a modified string that does not parse never ends the selection.
C6_BadTimestampSkipped == error # "ValueError"

\* C7: the run log changes only when every submitted call has finished, and
\* the step that changes it is the orchestrator's: no call changes state in
\* it.
C7_JoinBarrier ==
  [][ run_log' # run_log =>
        /\ \A i \in 1..Len(workers) :
             workers[i] \in {"failed", "empty", "saved", "raised"}
        /\ workers' = workers
        /\ files' = files
        /\ pc' = "done" ]_vars

C7_Witness ==
  /\ pc = "done"
  /\ Len(workers) >= 2
  /\ Len(run_log) = len_at_start + 1
  /\ \E i \in 1..Len(workers) : workers[i] = "saved"

\* C8: whatever the run log holds, a run without --force-refresh is never
\* ended by the cutoff it read.
C8_LedgerNeverFatal == ~(pc = "crashed" /\ ~force_refresh /\ error = "TypeError")

IsBlank(line) == \A k \in 1..Len(line) : line[k].k = "ws"
NonBlank(log) == {n \in 1..Len(log) : ~IsBlank(log[n])}
LastNonBlank(log) == CHOOSE n \in NonBlank(log) : \A m \in NonBlank(log) : m <= n

\* the first field of the line is one ISO string
StartsWithTimestamp(line) ==
  LET first == CHOOSE k \in 1..Len(line) :
                 line[k].k # "ws" /\ \A h \in 1..(k-1) : line[h].k = "ws"
      last == CHOOSE k \in 1..Len(line) :
                 line[k].k # "ws" /\ \A h \in (k+1)..Len(line) : line[h].k = "ws"
  IN /\ line[first].k = "word"
     /\ line[first].iso.iso
     /\ first = last \/ line[first + 1].k = "sep"

FirstWord(line) ==
  line[CHOOSE k \in 1..Len(line) :
         line[k].k # "ws" /\ \A h \in 1..(k-1) : line[h].k = "ws"]

\* the run in progress has read the run log and not yet appended to it
LogAsRead == pc \in {"load", "select", "selected", "pool", "crashed"}

\* C9: the cutoff read from the run log is the timestamp at the head of the
\* last non-blank line, and datetime.min when that line has none, whatever
\* the lines before it hold.
C9_LastLineOnly ==
  (LogAsRead /\ ~force_refresh /\ NonBlank(run_log) # {}) =>
    LET line == run_log[LastNonBlank(run_log)] IN
    IF StartsWithTimestamp(line)
    THEN /\ last_run.wall = FirstWord(line).iso.wall
         /\ last_run.aware = FirstWord(line).iso.aware
         /\ last_run.off = FirstWord(line).iso.off
    ELSE last_run = DATETIME_MIN_UTC

C9_Witness ==
  /\ LogAsRead
  /\ ~force_refresh
  /\ Cardinality(NonBlank(run_log)) >= 2
  /\ ~StartsWithTimestamp(run_log[LastNonBlank(run_log)])
  /\ \E n \in NonBlank(run_log) : StartsWithTimestamp(run_log[n])
  /\ last_run = DATETIME_MIN_UTC

\* C10: the line of a run that selected k >= 1 datasets reads
\* "Downloaded k file(s)", whatever became of the downloads.
C10_AttemptedCount ==
  (pc = "done" /\ hospital_datasets # <<>>) =>
    /\ Len(workers) = Len(hospital_datasets)
    /\ run_log[Len(run_log)][3] = DownloadedMsg(Len(hospital_datasets))

C10_Witness ==
  /\ pc = "done"
  /\ Len(hospital_datasets) >= 2
  /\ \E i \in 1..Len(workers) : workers[i] \in {"failed", "empty"}
  /\ run_log[Len(run_log)][3].n = Len(hospital_datasets)

\* the line the current run appended
LastLine == run_log[Len(run_log)]

\* C11: a run that selects nothing starts no call, writes no file and
\* appends exactly one line, "Nothing to update"; the next run without
\* --force-refresh takes the timestamp of that line as its cutoff.
C11_NothingToDoAdvancesCutoff ==
  [][ /\ (pc = "selected" /\ hospital_datasets = <<>> /\ pc' # pc) =>
           /\ pc' = "done"
           /\ workers' = <<>>
           /\ files' = files
           /\ dir_exists' = dir_exists
           /\ Len(run_log') = Len(run_log) + 1
           /\ run_log'[Len(run_log')][3] = NothingToUpdate
      /\ ( /\ pc \in {"done", "crashed"}
           /\ completed.valid
           /\ completed.selected = <<>>
           /\ pc' = "load"
           /\ ~force_refresh' ) =>
           last_run' = Datetime(completed.time, TRUE, 0) ]_vars

C11_Witness ==
  /\ pc = "load"
  /\ ~force_refresh
  /\ completed.valid
  /\ completed.selected = <<>>
  /\ LastLine[3] = NothingToUpdate
  /\ last_run = Datetime(completed.time, TRUE, 0)
  /\ last_run # DATETIME_MIN_UTC
  /\ ~dir_exists

\* C12: when neither the API nor the fallback file gives the metadata, the
\* run goes on with an empty list: it selects nothing, starts no call, is
\* not ended by an exception and appends its line.
C12_DoubleFailureIsEmptyCatalog ==
  source = "none" =>
    /\ data = JList(<<>>)
    /\ pc \in {"select", "selected", "done"}
    /\ error = ""
    /\ hospital_datasets = <<>>
    /\ workers = <<>>
    /\ pc = "done" =>
         /\ Len(run_log) = len_at_start + 1
         /\ LastLine[3] = NothingToUpdate

C12_Witness ==
  /\ source = "none"
  /\ pc = "done"
  /\ force_refresh
  /\ \E i \in 1..Len(catalog) : is_selected(catalog[i], last_run)
  /\ hospital_datasets = <<>>
  /\ Len(run_log) = len_at_start + 1

\* C13: when the API fails and the fallback file can be read, the run has
\* the list of datasets of the file, be the file a list or an object with
\* the key "dataset", and the selection goes as it does on the API's answer.
C13_FallbackSameShapes ==
  source = "fallback" =>
    /\ (pc = "select" /\ changed_midrun = {}) => data = JList(catalog)
    /\ error # "AttributeError"

\* the call for the dataset returns early: the request failed or the body
\* has no rows
Skips(dataset) == download_outcome(dataset) \in {"failed", "empty"}

\* C14: no step of a call that returns early, because its request failed or
\* its body has no rows, makes the directory or changes a file; the call
\* ends at the early return.
C14_SkipLeavesDirectory ==
  [][ \A i \in 1..Len(workers) :
        ( /\ i <= Len(workers')
          /\ workers'[i] # workers[i]
          /\ Skips(hospital_datasets[i]) ) =>
          /\ workers'[i] \in {"running", download_outcome(hospital_datasets[i])}
          /\ dir_exists' = dir_exists
          /\ files' = files ]_vars

C14_Witness ==
  /\ pc = "done"
  /\ \E i \in 1..Len(workers) :
       /\ workers[i] = "empty"
       /\ files[filename_of(url_of(hospital_datasets[i]))].exists
       /\ files[filename_of(url_of(hospital_datasets[i]))].text # <<>>

\* how far a call has gone
Progress(w) ==
  CASE w = "queued" -> 0
    [] w = "running" -> 1
    [] w = "parsed" -> 2
    [] w = "opened" -> 3
    [] OTHER -> 4

\* C15: the executor holds one call per selected dataset, in order; a call
\* never starts over; at most 5 calls are being executed at a time; and
\* every batch ends with all its calls finished and the run logged.
C15_BoundedExactlyOnce ==
  /\ [](pc \in {"pool", "done"} =>
          /\ Len(workers) = Len(hospital_datasets)
          /\ Cardinality(Busy(workers)) <= 5)
  /\ [][ (pc = "pool" /\ pc' \in {"pool", "done"}) =>
          /\ Len(workers') = Len(workers)
          /\ hospital_datasets' = hospital_datasets
          /\ \A i \in 1..Len(workers) :
               /\ Progress(workers'[i]) >= Progress(workers[i])
               /\ Progress(workers[i]) = 4 => workers'[i] = workers[i]
          /\ pc' = "done" => \A i \in 1..Len(workers) : Progress(workers[i]) = 4
        ]_vars
  /\ (pc = "pool") ~> (pc = "done")

C15_Witness ==
  /\ pc = "pool"
  /\ Cardinality(Busy(workers)) = 5
  /\ \E i \in 1..Len(workers) : workers[i] = "queued"
  /\ \E i \in 1..Len(workers) : workers[i] = "opened"

\* the datasets of the run that are written to the file of this name
WritersOf(name) ==
  {i \in 1..Len(hospital_datasets) :
     /\ Saves(hospital_datasets[i])
     /\ filename_of(url_of(hospital_datasets[i])) = name}

\* C16: when the run has ended, a file that two selected datasets were
\* written to holds the whole output of one of them.
C16_LastWriteWins ==
  pc = "done" =>
    \A name \in FileNames :
      Cardinality(WritersOf(name)) >= 2 =>
        \E i \in WritersOf(name) :
          files[name].text = written_text(hospital_datasets[i])

\* the rows csv.reader gives for the text of a file: rows end at "\r\n",
\* cells at ","
RECURSIVE read_cells(_, _)
read_cells(text, cell) ==
  IF text = <<>> THEN << cell >>
  ELSE IF Head(text) = "," THEN << cell >> \o read_cells(Tail(text), <<>>)
  ELSE read_cells(Tail(text), Append(cell, Head(text)))

RECURSIVE read_rows(_, _)
read_rows(text, line) ==
  IF text = <<>> THEN IF line = <<>> THEN <<>> ELSE << read_cells(line, <<>>) >>
  ELSE IF Len(text) >= 2 /\ text[1] = "\r" /\ text[2] = "\n"
       THEN << read_cells(line, <<>>) >> \o read_rows(SubSeq(text, 3, Len(text)), <<>>)
       ELSE read_rows(Tail(text), Append(line, Head(text)))

\* C17: the file of a dataset that was saved (and that no other selected
\* dataset is written to) has as many rows as the body; its first row is
\* the header of the body with every column normalized, column by column;
\* its other rows are the rows of the body, unchanged and in order.
C17_OnlyHeaderTransformed ==
  pc = "done" =>
    \A i \in 1..Len(workers) :
      (workers[i] = "saved" /\ ~NameShared(i)) =>
        LET body == Server(url_of(hospital_datasets[i])).rows
            file == read_rows(files[filename_of(url_of(hospital_datasets[i]))].text, <<>>)
        IN /\ Len(body) >= 1
           /\ Len(file) = Len(body)
           /\ Len(file[1]) = Len(body[1])
           /\ \A j \in 1..Len(body[1]) :
                file[1][j] = underscore(strip_chars(body[1][j]))
           /\ \A r \in 2..Len(body) : file[r] = body[r]

C17_Witness ==
  /\ pc = "done"
  /\ \E i \in 1..Len(workers) :
       /\ workers[i] = "saved"
       /\ ~NameShared(i)
       /\ LET body == Server(url_of(hospital_datasets[i])).rows
              file == read_rows(files[filename_of(url_of(hospital_datasets[i]))].text, <<>>)
          IN /\ Len(body) >= 2
             /\ Len(body[1]) >= 2
             /\ file[1] # body[1]
             /\ file[2] = body[2]
             /\ normalize_headers(body[2]) # body[2]

\* C18: a dataset that a logged run selected and whose download failed or
\* was empty is not selected by a later run without --force-refresh over
\* the same metadata.
C18_FailedNeverRetried ==
  (AfterCompletedRun /\ ~force_refresh /\ completed.data = data) =>
    \A i \in 1..Len(completed.selected) :
      Skips(completed.selected[i]) =>
        \A j \in 1..Len(hospital_datasets) :
          hospital_datasets[j] # completed.selected[i]

SomeCallRaised == \E i \in 1..Len(workers) : workers[i] = "raised"

\* C19: an exception that leaves a call (no distribution, a body that is
\* not UTF-8, a file that cannot be opened) ends neither the run nor the
\* other calls: every call finishes, the other datasets are saved, and the
\* run appends its line with the number of selected datasets.
C19_WorkerExceptionsIsolated ==
  SomeCallRaised =>
    /\ pc \in {"pool", "done"}
    /\ error = ""
    /\ pc = "done" =>
         /\ Len(run_log) = len_at_start + 1
         /\ LastLine[3] = DownloadedMsg(Len(hospital_datasets))
         /\ \A i \in 1..Len(hospital_datasets) :
              /\ i \in Finished(workers)
              /\ Saves(hospital_datasets[i])
                 => (workers[i] = "saved" /\ FileWritten(i))

C19_Witness ==
  /\ pc = "done"
  /\ error = ""
  /\ \E i \in 1..Len(workers) :
       workers[i] = "raised" /\ hospital_datasets[i].distribution # <<>>
  /\ \E i \in 1..Len(workers) : workers[i] = "saved" /\ FileWritten(i)
  /\ LastLine[3] = DownloadedMsg(2)

\* C20: a dataset whose modified time was edited, between the load and the
\* log append of a run, to a time between the two is not selected by a
\* later run without --force-refresh, as long as it is not edited again.
C20_MidRunChangeLost ==
  (AfterCompletedRun /\ ~force_refresh) =>
    \A i \in lost :
      (data.kind = "list" /\ i <= Len(data.items) /\ data.items[i] = catalog[i]) =>
        \A j \in 1..Len(hospital_datasets) : hospital_datasets[j] # catalog[i]

=============================================================================
